---- MODULE Spec2Model ----
(***************************************************************************)
(* Model of src/page.tsx: the adaptive "tap the colour" activity.          *)
(*                                                                         *)
(* The React component Page is modelled as a state machine.  Every         *)
(* useState slot is a variable.  A handler (or the part of the async       *)
(* handler onPick between two awaits, or a timer callback) is one action:  *)
(* React batches the setState calls of such a piece and commits them       *)
(* before the next event is dispatched.  An onPick call that is suspended  *)
(* at an await keeps the values its closure captured at the click; these   *)
(* are the fields of its record in picks.                                  *)
(*                                                                         *)
(* Numbers with fractions are kept as scaled integers: a normalised        *)
(* component is held in eighteenths (0..18 stands for 0..1) and the        *)
(* frustration value in hundredths (0..100 stands for 0.00..1.00).         *)
(***************************************************************************)
EXTENDS Integers, Sequences, FiniteSets, TLC

\* ------------------------------------------------------------------------
\* Bounds of the model (not program constants)
\* ------------------------------------------------------------------------
\* number of option clicks in one run
MaxPicks == 2
\* number of onPick calls suspended at an await at the same time
MaxInFlight == 2
\* number of clicks on the hint button in one run
MaxHints == 1
\* number of clicks on the reset button in one run
MaxResets == 1
\* number of responses with a 2xx status the decision service gives in one run
MaxOk == 1
\* number of option clicks in one run of the longer sessions (SpecDeep)
MaxDeepPicks == 3

\* ------------------------------------------------------------------------
\* Program constants
\* ------------------------------------------------------------------------
MAX_ATTEMPTS == 100

Levels == {"easy", "medium", "hard"}
order == <<"easy", "medium", "hard">>
all == <<"rojo", "azul", "amarillo">>
ColorKeys == {all[i] : i \in 1..Len(all)}
NULL == "null"

BASE_COLOR ==
  [c \in ColorKeys |->
     CASE c = "rojo" -> "#FF3B30"
       [] c = "azul" -> "#007AFF"
       [] c = "amarillo" -> "#FFD60A"]

\* SWATCHES[c][lvl] : the pool of variants of colour c at level lvl
SWATCHES ==
  [c \in ColorKeys |->
     CASE c = "rojo" ->
            [lvl \in Levels |->
               CASE lvl = "easy" -> <<[id |-> "rojo_base", label |-> "rojo", hex |-> "#FF5A5F"]>>
                 [] lvl = "medium" ->
                      <<[id |-> "rojo_base", label |-> "rojo", hex |-> "#FF5A5F"],
                        [id |-> "rojo_rosado", label |-> "rojo", hex |-> "#FF7AA2"],
                        [id |-> "rojo_naranja", label |-> "rojo", hex |-> "#FF6B3D"]>>
                 [] lvl = "hard" ->
                      <<[id |-> "rojo_base", label |-> "rojo", hex |-> "#FF5A5F"],
                        [id |-> "rojo_coral", label |-> "rojo", hex |-> "#FF6F61"],
                        [id |-> "rojo_salmon", label |-> "rojo", hex |-> "#FF7F7F"]>>]
       [] c = "azul" ->
            [lvl \in Levels |->
               CASE lvl = "easy" -> <<[id |-> "azul_base", label |-> "azul", hex |-> "#3B82F6"]>>
                 [] lvl = "medium" ->
                      <<[id |-> "azul_base", label |-> "azul", hex |-> "#3B82F6"],
                        [id |-> "azul_cielo", label |-> "azul", hex |-> "#60A5FA"],
                        [id |-> "azul_profundo", label |-> "azul", hex |-> "#2563EB"]>>
                 [] lvl = "hard" ->
                      <<[id |-> "azul_base", label |-> "azul", hex |-> "#3B82F6"],
                        [id |-> "azul_indigo", label |-> "azul", hex |-> "#4F46E5"],
                        [id |-> "azul_marino", label |-> "azul", hex |-> "#1D4ED8"]>>]
       [] c = "amarillo" ->
            [lvl \in Levels |->
               CASE lvl = "easy" -> <<[id |-> "amarillo_base", label |-> "amarillo", hex |-> "#FBBF24"]>>
                 [] lvl = "medium" ->
                      <<[id |-> "amarillo_base", label |-> "amarillo", hex |-> "#FBBF24"],
                        [id |-> "amarillo_dorado", label |-> "amarillo", hex |-> "#F59E0B"],
                        [id |-> "amarillo_claro", label |-> "amarillo", hex |-> "#FCD34D"]>>
                 [] lvl = "hard" ->
                      <<[id |-> "amarillo_base", label |-> "amarillo", hex |-> "#FBBF24"],
                        [id |-> "amarillo_calido", label |-> "amarillo", hex |-> "#F4B400"],
                        [id |-> "amarillo_mostaza", label |-> "amarillo", hex |-> "#DFAF2B"]>>]]

\* ------------------------------------------------------------------------
\* Frustration scorer
\* ------------------------------------------------------------------------
Min(a, b) == IF a < b THEN a ELSE b
Max(a, b) == IF a > b THEN a ELSE b

clamp_noUpperBound(num, den) == Max(0, (18 \div den) * num)

\* clamp(v) for v = num / den with den > 0, in eighteenths (den divides 18)
clamp(num, den) == Max(0, Min(18, (18 \div den) * num))

\* The signal tuples whose exact weighted sum ends in ...5 thousandths and
\* whose IEEE-754 double sum lies just below it, so that toFixed(2) rounds
\* down; every other exact half rounds up.  <<e, h, r, t, s>> in eighteenths.
TiesDown ==
  { <<0, 0, 9, 0, 0>>, <<0, 0, 9, 0, 18>>, <<0, 9, 9, 0, 0>>, <<0, 9, 9, 0, 9>>,
    <<0, 9, 9, 18, 9>>, <<0, 9, 9, 18, 18>>, <<6, 0, 9, 12, 0>>, <<6, 0, 9, 12, 9>>,
    <<6, 0, 9, 12, 18>>, <<12, 0, 9, 6, 0>>, <<12, 0, 9, 6, 9>>, <<12, 0, 9, 6, 18>>,
    <<12, 9, 9, 6, 0>>, <<12, 9, 9, 6, 18>>, <<12, 18, 9, 6, 0>>, <<12, 18, 9, 6, 18>>,
    <<18, 0, 9, 0, 0>>, <<18, 0, 9, 0, 9>>, <<18, 0, 9, 18, 18>>, <<18, 9, 9, 0, 0>>,
    <<18, 9, 9, 0, 9>>, <<18, 9, 9, 0, 18>>, <<18, 9, 9, 18, 0>>, <<18, 9, 9, 18, 9>>,
    <<18, 9, 9, 18, 18>>, <<18, 18, 9, 0, 18>>, <<18, 18, 9, 18, 0>>, <<18, 18, 9, 18, 18>> }

\* Number(F.toFixed(2)) in hundredths, F = sum / 1800
toFixed2(sum, comps) ==
  IF sum % 18 = 9 /\ comps \in TiesDown THEN sum \div 18 ELSE (sum + 9) \div 18

computeFrustration(params) ==
  LET e == clamp(params.errorsConsecutive, 3)
      h == clamp(params.hintsUsed, 2)
      r == clamp(params.retriesSameRound, 2)
      t == clamp(params.latencySec - 3, 12 - 3)
      s == clamp(params.perseveration, 2)
      F == 35 * e + 20 * h + 15 * r + 20 * t + 10 * s
  IN  [value |-> toFixed2(F, <<e, h, r, t, s>>),
       components |-> [e |-> e, h |-> h, r |-> r, t |-> t, s |-> s]]

\* ------------------------------------------------------------------------
\* Level order and the local decision policy
\* ------------------------------------------------------------------------
indexOf(current) == CHOOSE i \in 1..Len(order) : order[i] = current

nextLevel(current, dir) ==
  LET idx == indexOf(current)
  IN  IF dir = "up" THEN order[Min(idx + 1, Len(order))]
      ELSE order[Max(idx - 1, 1)]

candidateStreak_countsAll(value, streak) == streak + 1

\* const isHigh / const nextHigh: the candidate high-frustration streak
candidateStreak(value, streak) == IF value >= 65 THEN streak + 1 ELSE 0

localAction_lateEase(value, nextHigh) ==
  IF value < 35 THEN "keep"
  ELSE IF value < 65 THEN "support"
  ELSE IF nextHigh >= 3 THEN "ease" ELSE "support"

\* action of the local fallback from the rounded frustration and the
\* candidate streak
localAction(value, nextHigh) ==
  IF value < 35 THEN "keep"
  ELSE IF value < 65 THEN "support"
  ELSE IF nextHigh >= 2 THEN "ease" ELSE "support"

localSuggestedLevel_lateLevelUp(action, correct, successStreak0, lvl) ==
  LET nextSuccess == IF correct THEN successStreak0 + 1 ELSE 0
  IN  IF action = "ease" THEN nextLevel(lvl, "down")
      ELSE IF nextSuccess > 3 THEN nextLevel(lvl, "up")
      ELSE lvl

localSuggestedLevel_countsEveryPick(action, correct, successStreak0, lvl) ==
  LET nextSuccess == successStreak0 + 1
  IN  IF action = "ease" THEN nextLevel(lvl, "down")
      ELSE IF nextSuccess >= 3 THEN nextLevel(lvl, "up")
      ELSE lvl

\* suggestedLevel of the local fallback
localSuggestedLevel(action, correct, successStreak0, lvl) ==
  LET nextSuccess == IF correct THEN successStreak0 + 1 ELSE 0
  IN  IF action = "ease" THEN nextLevel(lvl, "down")
      ELSE IF nextSuccess >= 3 THEN nextLevel(lvl, "up")
      ELSE lvl

localNextSuccess_noResetAtLevelUp(action, correct, successStreak0) ==
  LET nextSuccess == IF correct THEN successStreak0 + 1 ELSE 0
  IN  IF action = "ease" THEN 0 ELSE nextSuccess

\* nextSuccess of the local fallback
localNextSuccess(action, correct, successStreak0) ==
  LET nextSuccess == IF correct THEN successStreak0 + 1 ELSE 0
  IN  IF action = "ease" THEN 0
      ELSE IF nextSuccess >= 3 THEN 0
      ELSE nextSuccess

localNextHigh_noResetAtEase(action, nextHigh) == nextHigh

\* nextHighFrustrationStreak of the local fallback
localNextHigh(action, nextHigh) == IF action = "ease" THEN 0 ELSE nextHigh

\* the catch branch of onPick: the decision computed locally from the
\* values the call captured at the click (fields of p)
localDecision(p) ==
  LET frustration == computeFrustration(
                       [errorsConsecutive |-> p.nextErrorsConsecutive,
                        hintsUsed |-> p.hintsUsed,
                        retriesSameRound |-> p.nextRetriesSameRound,
                        latencySec |-> p.latencySec,
                        perseveration |-> p.nextPerseveration])
      nextHigh == candidateStreak(frustration.value, p.highFrustrationStreak)
      action == localAction(frustration.value, nextHigh)
  IN  [frustration |-> frustration,
       action |-> action,
       suggestedLevel |-> localSuggestedLevel(action, p.correct, p.successStreak, p.level),
       nextHighFrustrationStreak |-> localNextHigh(action, nextHigh),
       nextSuccessStreak |-> localNextSuccess(action, p.correct, p.successStreak)]

ruleOf_levelFirst(action, suggestedLevel, lvl) ==
  IF suggestedLevel # lvl THEN "levelup_by_streak"
  ELSE IF action = "support" THEN "support_by_frustration"
  ELSE IF action = "ease" THEN "ease_by_frustration"
  ELSE "none"

ruleOf_keepIsNone(action, suggestedLevel, lvl) ==
  IF action = "support" THEN "support_by_frustration"
  ELSE IF action = "ease" THEN "ease_by_frustration"
  ELSE "none"

\* rule tag of an attempt record
ruleOf(action, suggestedLevel, lvl) ==
  IF action = "support" THEN "support_by_frustration"
  ELSE IF action = "ease" THEN "ease_by_frustration"
  ELSE IF suggestedLevel # lvl THEN "levelup_by_streak"
  ELSE "none"

\* ------------------------------------------------------------------------
\* Round generator
\* ------------------------------------------------------------------------
makeBaseSwatch_easyVariant(color, n) ==
  [id |-> <<color, n>>, label |-> color, hex |-> SWATCHES[color]["easy"][1].hex]

\* a swatch id is `${color}_${random hex}`: the pair of the colour and a
\* fresh number n
makeBaseSwatch(color, n) ==
  [id |-> <<color, n>>, label |-> color, hex |-> BASE_COLOR[color]]

\* the rounds makeRound(prevTarget, level) can return; n is the fresh number
\* that stands for Date.now() and Math.random() in the ids.  The shuffled
\* option array is kept as the set of its elements.
makeRound(prevTarget, lvl, n) ==
  LET candidates == IF prevTarget # NULL THEN ColorKeys \ {prevTarget} ELSE ColorKeys
      correctSwatches(target) ==
        IF lvl = "easy" THEN {makeBaseSwatch(target, n)}
        ELSE {[id |-> <<target, n>>,
               label |-> SWATCHES[target][lvl][i].label,
               hex |-> SWATCHES[target][lvl][i].hex] :
                 i \in 1..Len(SWATCHES[target][lvl])}
      distractors(target) == {makeBaseSwatch(c, n) : c \in ColorKeys \ {target}}
  IN  UNION {{[id |-> n, target |-> target, level |-> lvl,
               options |-> {cs} \cup distractors(target)] :
                 cs \in correctSwatches(target)} : target \in candidates}

\* ------------------------------------------------------------------------
\* Inputs of the environment
\* ------------------------------------------------------------------------
\* latencySec = Math.round((Date.now() - roundStartTs) / 1000)
Latencies == {0, 12}

\* bodies the decision service may answer with besides the one its contract
\* asks for (the result of the same policy on the request)
OtherReplies ==
  { [frustration |-> [value |-> 10, components |-> [e |-> 0, h |-> 0, r |-> 0, t |-> 9, s |-> 0]],
     action |-> "keep", suggestedLevel |-> "medium",
     nextHighFrustrationStreak |-> 1, nextSuccessStreak |-> 2] }

\* localStorage content found at start: nothing, or a log saved earlier
Filler(i) ==
  [roundId |-> 0 - i, target |-> "rojo", chosen |-> "rojo", correct |-> TRUE,
   hintsUsed |-> 0, latencySec |-> 0, frustration |-> 0,
   frustrationComponents |-> [e |-> 0, h |-> 0, r |-> 0, t |-> 0, s |-> 0],
   action |-> "keep", source |-> "fallback",
   levelBefore |-> "easy", levelAfter |-> "easy", rule |-> "none"]

StoredLogs == { <<>>, [i \in 1..(MAX_ATTEMPTS + 1) |-> Filler(i)] }

\* arr.slice(0, n)
slice(arr, n) == SubSeq(arr, 1, Min(Len(arr), n))

\* ------------------------------------------------------------------------
\* State
\* ------------------------------------------------------------------------
VARIABLES
  decisionSource,         \* useState 'backend' | 'fallback'
  level,                  \* useState Level
  round,                  \* useState Round
  feedback,               \* useState 'idle' | 'correct' | 'wrong'
  lastChosen,             \* useState ColorKey | null
  successStreak,          \* useState number
  highFrustrationStreak,  \* useState number
  hintOn,                 \* useState boolean
  hintsUsed,              \* useState number
  attempts,               \* useState Attempt[], newest first
  errorsConsecutive,      \* useState number
  retriesSameRound,       \* useState number
  lastWrongChoice,        \* useState string | null (a swatch id)
  perseveration,          \* useState number
  picks,                  \* the onPick calls suspended at an await
  advanceTimers,          \* pending setTimeout(..., 700) callbacks, oldest first
  hintOffTimers,          \* number of pending setTimeout(() => setHintOn(false), 400)
  crashed,                \* a render threw: the component is unmounted
  nextId,                 \* source of fresh ids (Date.now(), Math.random())
  nPicks, nHints, nResets, nOk, \* clicks and 2xx responses so far, for the bounds
  ev,                     \* the step just taken (history, read by the properties only)
  call                    \* a call of a pure function made on its own: name, arguments, result

vars == <<decisionSource, level, round, feedback, lastChosen, successStreak,
          highFrustrationStreak, hintOn, hintsUsed, attempts, errorsConsecutive,
          retriesSameRound, lastWrongChoice, perseveration, picks, advanceTimers,
          hintOffTimers, crashed, nextId, nPicks, nHints, nResets, nOk, ev, call>>

\* null for lastWrongChoice (swatch ids are pairs)
NoChoice == <<>>
NoPick == [id |-> 0]
NoDecision == [action |-> "none"]
NoCall == [fn |-> "none"]
NoResult == [none |-> TRUE]

\* the variables of the page
pageVars == <<decisionSource, level, round, feedback, lastChosen, successStreak,
              highFrustrationStreak, hintOn, hintsUsed, attempts, errorsConsecutive,
              retriesSameRound, lastWrongChoice, perseveration, picks, advanceTimers,
              hintOffTimers, crashed, nextId, nPicks, nHints, nResets, nOk, ev>>

Event(kind, p, outcome, decision) ==
  [kind |-> kind, pick |-> p, outcome |-> outcome, decision |-> decision]

\* useState initialisers, then the two mount effects: a clean start and the
\* load of the stored log
Mounted ==
  /\ decisionSource = "fallback"
  /\ level = "easy"
  /\ round \in makeRound(NULL, "easy", 1)
  /\ feedback = "idle"
  /\ lastChosen = NULL
  /\ successStreak = 0
  /\ highFrustrationStreak = 0
  /\ hintOn = FALSE
  /\ hintsUsed = 0
  /\ \E loaded \in StoredLogs : attempts = slice(loaded, MAX_ATTEMPTS)
  /\ errorsConsecutive = 0
  /\ retriesSameRound = 0
  /\ lastWrongChoice = NoChoice
  /\ perseveration = 0
  /\ picks = {}
  /\ advanceTimers = <<>>
  /\ hintOffTimers = 0
  /\ crashed = FALSE
  /\ nextId = 2
  /\ nPicks = 0
  /\ nHints = 0
  /\ nResets = 0
  /\ nOk = 0
  /\ ev = Event("init", NoPick, "none", NoDecision)

\* the page after construction; no function is called on its own
Init == Mounted /\ call = NoCall

\* ------------------------------------------------------------------------
\* Handlers
\* ------------------------------------------------------------------------
useHint_newTry ==
  /\ ~crashed
  /\ nHints < MaxHints
  /\ hintOn' = TRUE
  /\ hintsUsed' = hintsUsed + 1
  /\ retriesSameRound' = 0
  /\ nHints' = nHints + 1
  /\ ev' = Event("hint", NoPick, "none", NoDecision)
  /\ UNCHANGED <<decisionSource, level, round, feedback, lastChosen, successStreak,
                 highFrustrationStreak, attempts, errorsConsecutive,
                 lastWrongChoice, perseveration, picks, advanceTimers, hintOffTimers,
                 crashed, nextId, nPicks, nResets, nOk, call>>

\* the hint button
useHint ==
  /\ ~crashed
  /\ nHints < MaxHints
  /\ hintOn' = TRUE
  /\ hintsUsed' = hintsUsed + 1
  /\ nHints' = nHints + 1
  /\ ev' = Event("hint", NoPick, "none", NoDecision)
  /\ UNCHANGED <<decisionSource, level, round, feedback, lastChosen, successStreak,
                 highFrustrationStreak, attempts, errorsConsecutive, retriesSameRound,
                 lastWrongChoice, perseveration, picks, advanceTimers, hintOffTimers,
                 crashed, nextId, nPicks, nResets, nOk, call>>

perseverationAfter_anyWrong(correct, lastWrong, swatchId, persev) ==
  IF correct THEN 0 ELSE persev + 1

\* nextPerseveration of onPick
perseverationAfter(correct, lastWrong, swatchId, persev) ==
  IF correct THEN 0
  ELSE IF lastWrong = swatchId THEN persev + 1
  ELSE persev

\* onPick up to `await fetch(...)`: the click on option swatch of the
\* rendered round, latencySec seconds after the round started
onPickClick(swatch, latencySec) ==
  LET correct == swatch.label = round.target
      nextErrorsConsecutive == IF correct THEN 0 ELSE errorsConsecutive + 1
      nextRetriesSameRound == IF correct THEN 0 ELSE retriesSameRound + 1
      nextPerseveration ==
        perseverationAfter(correct, lastWrongChoice, swatch.id, perseveration)
      p == [id |-> nPicks + 1, swatch |-> swatch, correct |-> correct,
            latencySec |-> latencySec, level |-> level, hintsUsed |-> hintsUsed,
            highFrustrationStreak |-> highFrustrationStreak,
            successStreak |-> successStreak, round |-> round,
            nextErrorsConsecutive |-> nextErrorsConsecutive,
            nextRetriesSameRound |-> nextRetriesSameRound,
            nextPerseveration |-> nextPerseveration,
            phase |-> "fetch"]
  IN  /\ ~crashed
      /\ swatch \in round.options
      /\ lastChosen' = swatch.label
      /\ feedback' = IF correct THEN "correct" ELSE "wrong"
      /\ errorsConsecutive' = nextErrorsConsecutive
      /\ retriesSameRound' = nextRetriesSameRound
      /\ perseveration' = nextPerseveration
      /\ lastWrongChoice' = IF correct THEN NoChoice
                            ELSE IF lastWrongChoice = swatch.id THEN lastWrongChoice
                            ELSE swatch.id
      /\ picks' = picks \cup {p}
      /\ nPicks' = nPicks + 1
      /\ ev' = Event("click", p, "none", NoDecision)
      /\ UNCHANGED <<decisionSource, level, round, successStreak, highFrustrationStreak,
                     hintOn, hintsUsed, attempts, advanceTimers, hintOffTimers, crashed,
                     nextId, nHints, nResets, nOk, call>>

\* a click on an option, within the bounds of the model
onPickStart(swatch, latencySec) ==
  /\ nPicks < MaxPicks
  /\ Cardinality(picks) < MaxInFlight
  /\ onPickClick(swatch, latencySec)

attemptOf_alwaysFallback(p, decision, source) ==
  [roundId |-> p.round.id,
   target |-> p.round.target,
   chosen |-> p.swatch.label,
   correct |-> p.correct,
   hintsUsed |-> p.hintsUsed,
   latencySec |-> p.latencySec,
   frustration |-> decision.frustration.value,
   frustrationComponents |-> decision.frustration.components,
   action |-> decision.action,
   source |-> "fallback",
   levelBefore |-> p.level,
   levelAfter |-> decision.suggestedLevel,
   rule |-> IF decision.action = "support" THEN "support_by_frustration"
            ELSE IF decision.action = "ease" THEN "ease_by_frustration"
            ELSE IF decision.suggestedLevel # p.level THEN "levelup_by_streak"
            ELSE "none"]

\* the attempt record onPick p writes for decision
attemptOf(p, decision, source) ==
  [roundId |-> p.round.id,
   target |-> p.round.target,
   chosen |-> p.swatch.label,
   correct |-> p.correct,
   hintsUsed |-> p.hintsUsed,
   latencySec |-> p.latencySec,
   frustration |-> decision.frustration.value,
   frustrationComponents |-> decision.frustration.components,
   action |-> decision.action,
   source |-> source,
   levelBefore |-> p.level,
   levelAfter |-> decision.suggestedLevel,
   rule |-> ruleOf(decision.action, decision.suggestedLevel, p.level)]

appendAttempt_offByOne(prev, record) == SubSeq(<<record>> \o prev, 1, Min(Len(prev) + 1, MAX_ATTEMPTS + 1))

\* [record, ...prev].slice(0, MAX_ATTEMPTS)
appendAttempt(prev, record) == slice(<<record>> \o prev, MAX_ATTEMPTS)

\* onPick from the destructuring of decision to its end: apply the streaks
\* and the level, append the record, then regenerate the round (ease), arm
\* the 700 ms advance (correct) or the 400 ms hint-off timer (wrong)
applyDecision(p, decision, source, outcome) ==
  LET action == decision.action
      suggestedLevel == decision.suggestedLevel
  IN  /\ decisionSource' = source
      /\ highFrustrationStreak' = decision.nextHighFrustrationStreak
      /\ successStreak' = decision.nextSuccessStreak
      /\ level' = IF suggestedLevel # p.level THEN suggestedLevel ELSE level
      /\ attempts' = appendAttempt(attempts, attemptOf(p, decision, source))
      /\ picks' = picks \ {p}
      /\ ev' = Event("complete", p, outcome, decision)
      /\ IF action = "ease"
         THEN /\ feedback' = "idle"
              /\ lastChosen' = NULL
              /\ hintOn' = FALSE
              /\ hintsUsed' = 0
              /\ round' \in makeRound(p.round.target, suggestedLevel, nextId)
              /\ nextId' = nextId + 1
              /\ errorsConsecutive' = 0
              /\ retriesSameRound' = 0
              /\ lastWrongChoice' = NoChoice
              /\ perseveration' = 0
              /\ UNCHANGED <<advanceTimers, hintOffTimers>>
         ELSE /\ hintOn' = IF action = "support" THEN TRUE ELSE hintOn
              /\ IF p.correct
                 THEN /\ advanceTimers' =
                           Append(advanceTimers,
                                  [target |-> p.round.target, level |-> suggestedLevel])
                      /\ UNCHANGED hintOffTimers
                 ELSE /\ hintOffTimers' = hintOffTimers + 1
                      /\ UNCHANGED advanceTimers
              /\ UNCHANGED <<feedback, lastChosen, hintsUsed, round, nextId,
                             errorsConsecutive, retriesSameRound, lastWrongChoice,
                             perseveration>>
      /\ UNCHANGED <<crashed, nPicks, nHints, nResets, nOk, call>>

\* fetch rejects with a network error: the catch branch decides locally
fetchRejected(p) ==
  /\ ~crashed
  /\ p \in picks /\ p.phase = "fetch"
  /\ applyDecision(p, localDecision(p), "fallback", "network_error")

\* the 800 ms timer fires before the response arrived: controller.abort()
\* makes fetch reject
abortTimeout(p) ==
  /\ ~crashed
  /\ p \in picks /\ p.phase = "fetch"
  /\ applyDecision(p, localDecision(p), "fallback", "timeout")

\* the response arrives with a status that is not 2xx: the timer is cleared
\* and 'backend not ok' is thrown into the catch branch
responseNotOk(p) ==
  /\ ~crashed
  /\ p \in picks /\ p.phase = "fetch"
  /\ applyDecision(p, localDecision(p), "fallback", "not_ok")

\* the response arrives with a 2xx status: the timer is cleared and onPick
\* awaits res.json()
responseOk(p) ==
  /\ ~crashed
  /\ p \in picks /\ p.phase = "fetch"
  /\ nOk < MaxOk
  /\ nOk' = nOk + 1
  /\ picks' = (picks \ {p}) \cup {[p EXCEPT !.phase = "body"]}
  /\ ev' = Event("headers", p, "pending", NoDecision)
  /\ UNCHANGED <<decisionSource, level, round, feedback, lastChosen, successStreak,
                 highFrustrationStreak, hintOn, hintsUsed, attempts, errorsConsecutive,
                 retriesSameRound, lastWrongChoice, perseveration, advanceTimers,
                 hintOffTimers, crashed, nextId, nPicks, nHints, nResets, call>>

\* res.json() resolves with a body that has every field of a decision
bodyDecision(p, decision) ==
  /\ ~crashed
  /\ p \in picks /\ p.phase = "body"
  /\ applyDecision(p, decision, "backend", "ok")

\* res.json() rejects (the body is not JSON): the catch branch decides locally
bodyUnparsable(p) ==
  /\ ~crashed
  /\ p \in picks /\ p.phase = "body"
  /\ applyDecision(p, localDecision(p), "fallback", "unparsable")

\* res.json() resolves with null: source is set to backend, then the
\* destructuring of decision throws and onPick ends as a rejected promise
bodyNull(p) ==
  /\ ~crashed
  /\ p \in picks /\ p.phase = "body"
  /\ decisionSource' = "backend"
  /\ picks' = picks \ {p}
  /\ ev' = Event("threw", p, "null_body", NoDecision)
  /\ UNCHANGED <<level, round, feedback, lastChosen, successStreak,
                 highFrustrationStreak, hintOn, hintsUsed, attempts, errorsConsecutive,
                 retriesSameRound, lastWrongChoice, perseveration, advanceTimers,
                 hintOffTimers, crashed, nextId, nPicks, nHints, nResets, nOk, call>>

\* res.json() resolves with an object without the frustration field: the
\* updater given to setAttempts reads frustration.value and throws while
\* React renders, which unmounts the component
bodyNoFrustration(p) ==
  /\ ~crashed
  /\ p \in picks /\ p.phase = "body"
  /\ crashed' = TRUE
  /\ picks' = picks \ {p}
  /\ ev' = Event("crash", p, "no_frustration", NoDecision)
  /\ UNCHANGED <<decisionSource, level, round, feedback, lastChosen, successStreak,
                 highFrustrationStreak, hintOn, hintsUsed, attempts, errorsConsecutive,
                 retriesSameRound, lastWrongChoice, perseveration, advanceTimers,
                 hintOffTimers, nextId, nPicks, nHints, nResets, nOk, call>>

advanceTimer_keepsErrors ==
  /\ ~crashed
  /\ advanceTimers # <<>>
  /\ LET t == Head(advanceTimers)
     IN  /\ round' \in makeRound(t.target, t.level, nextId)
         /\ ev' = Event("advance", NoPick, "none",
                        [action |-> "none", timer |-> t])
  /\ nextId' = nextId + 1
  /\ advanceTimers' = Tail(advanceTimers)
  /\ feedback' = "idle"
  /\ lastChosen' = NULL
  /\ hintOn' = FALSE
  /\ hintsUsed' = 0
  /\ retriesSameRound' = 0
  /\ lastWrongChoice' = NoChoice
  /\ perseveration' = 0
  /\ UNCHANGED <<decisionSource, level, successStreak, highFrustrationStreak, attempts,
                 errorsConsecutive, picks, hintOffTimers, crashed, nPicks, nHints,
                 nResets, nOk, call>>

\* the callback of setTimeout(..., 700) armed by a correct pick
advanceTimer ==
  /\ ~crashed
  /\ advanceTimers # <<>>
  /\ LET t == Head(advanceTimers)
     IN  /\ round' \in makeRound(t.target, t.level, nextId)
         /\ ev' = Event("advance", NoPick, "none",
                        [action |-> "none", timer |-> t])
  /\ nextId' = nextId + 1
  /\ advanceTimers' = Tail(advanceTimers)
  /\ feedback' = "idle"
  /\ lastChosen' = NULL
  /\ hintOn' = FALSE
  /\ hintsUsed' = 0
  /\ errorsConsecutive' = 0
  /\ retriesSameRound' = 0
  /\ lastWrongChoice' = NoChoice
  /\ perseveration' = 0
  /\ UNCHANGED <<decisionSource, level, successStreak, highFrustrationStreak, attempts,
                 picks, hintOffTimers, crashed, nPicks, nHints, nResets, nOk, call>>

\* the callback of setTimeout(() => setHintOn(false), 400)
hintOffTimer ==
  /\ ~crashed
  /\ hintOffTimers > 0
  /\ hintOffTimers' = hintOffTimers - 1
  /\ hintOn' = FALSE
  /\ ev' = Event("hintoff", NoPick, "none", NoDecision)
  /\ UNCHANGED <<decisionSource, level, round, feedback, lastChosen, successStreak,
                 highFrustrationStreak, hintsUsed, attempts, errorsConsecutive,
                 retriesSameRound, lastWrongChoice, perseveration, picks, advanceTimers,
                 crashed, nextId, nPicks, nHints, nResets, nOk, call>>

\* the reset button; suspended onPick calls and armed timers are not touched
resetAll ==
  /\ ~crashed
  /\ nResets < MaxResets
  /\ attempts' = <<>>
  /\ level' = "easy"
  /\ round' \in makeRound(NULL, "easy", nextId)
  /\ nextId' = nextId + 1
  /\ feedback' = "idle"
  /\ lastChosen' = NULL
  /\ hintOn' = FALSE
  /\ hintsUsed' = 0
  /\ errorsConsecutive' = 0
  /\ retriesSameRound' = 0
  /\ lastWrongChoice' = NoChoice
  /\ perseveration' = 0
  /\ successStreak' = 0
  /\ highFrustrationStreak' = 0
  /\ nResets' = nResets + 1
  /\ ev' = Event("reset", NoPick, "none", NoDecision)
  /\ UNCHANGED <<decisionSource, picks, advanceTimers, hintOffTimers, crashed,
                 nPicks, nHints, nOk, call>>

\* the bodies a 2xx response may carry for the request of p
Replies(p) == {localDecision(p)} \cup OtherReplies

Next ==
  \/ useHint
  \/ \E swatch \in round.options, latencySec \in Latencies : onPickStart(swatch, latencySec)
  \/ \E p \in picks : fetchRejected(p)
  \/ \E p \in picks : abortTimeout(p)
  \/ \E p \in picks : responseNotOk(p)
  \/ \E p \in picks : responseOk(p)
  \/ \E p \in picks : \E decision \in Replies(p) : bodyDecision(p, decision)
  \/ \E p \in picks : bodyUnparsable(p)
  \/ \E p \in picks : bodyNull(p)
  \/ \E p \in picks : bodyNoFrustration(p)
  \/ advanceTimer
  \/ hintOffTimer
  \/ resetAll

Spec == Init /\ [][Next]_vars

\* ------------------------------------------------------------------------
\* Longer sessions: a clean start without stored log, a subject who takes
\* 12 s for every pick and does not press reset, and a decision service that
\* either fails to connect or answers with a decision
\* ------------------------------------------------------------------------
SlowLatencies == {12}

InitDeep == Init /\ attempts = <<>>

onPickDeep(swatch, latencySec) ==
  /\ nPicks < MaxDeepPicks
  /\ Cardinality(picks) < MaxInFlight
  /\ onPickClick(swatch, latencySec)

NextDeep ==
  \/ useHint
  \/ \E swatch \in round.options, latencySec \in SlowLatencies : onPickDeep(swatch, latencySec)
  \/ \E p \in picks : fetchRejected(p)
  \/ \E p \in picks : responseOk(p)
  \/ \E p \in picks : \E decision \in Replies(p) : bodyDecision(p, decision)
  \/ advanceTimer
  \/ hintOffTimer

SpecDeep == InitDeep /\ [][NextDeep]_vars

\* ------------------------------------------------------------------------
\* The pure functions called on their own: computeFrustration on signal
\* tuples, makeRound on every previous target and level, and the local
\* policy with the record it leads to on the values onPick can hand to it
\* ------------------------------------------------------------------------
\* non-negative integer signals, below, at and above the value at which each
\* component saturates (3 errors, 2 hints, 2 retries, 3 s to 12 s, 2 repeats)
SignalTuples ==
  [errorsConsecutive : 0..4, hintsUsed : 0..3, retriesSameRound : 0..3,
   latencySec : {0, 2, 3, 4, 7, 11, 12, 13, 60}, perseveration : 0..3]

RoundArguments == [prevTarget : ColorKeys \cup {NULL}, level : Levels]

\* a suspended call with chosen captured values, for the worked examples
ExamplePick(errors, hints, retries, latency, persev, high, success, correct, lvl) ==
  [correct |-> correct, latencySec |-> latency, level |-> lvl, hintsUsed |-> hints,
   highFrustrationStreak |-> high, successStreak |-> success,
   nextErrorsConsecutive |-> errors, nextRetriesSameRound |-> retries,
   nextPerseveration |-> persev]

\* the values onPick hands to the policy: after a correct pick the three
\* error counters are 0, after an incorrect one errors and retries are equal
\* and positive and the perseveration count is below them
PolicyLatencies == {0, 7, 12, 60}

Requests ==
  {ExamplePick(0, h, 0, l, 0, hi, su, TRUE, lv) :
     h \in 0..3, l \in PolicyLatencies, hi \in 0..2, su \in 0..2, lv \in Levels}
    \cup {ExamplePick(es[1], h, es[1], l, es[2], hi, su, FALSE, lv) :
            es \in {x \in (1..4) \X (0..3) : x[2] < x[1]},
            h \in 0..3, l \in PolicyLatencies, hi \in 0..2, su \in 0..2, lv \in Levels}

\* a call of onPick that captured the values of request req
pickOf(req) ==
  LET r == CHOOSE x \in makeRound(NULL, req.level, 1) : TRUE
      s == CHOOSE o \in r.options : (o.label = r.target) = req.correct
  IN  req @@ [id |-> 1, round |-> r, swatch |-> s, phase |-> "fetch"]

Calls ==
  {[fn |-> "computeFrustration", args |-> a, result |-> NoResult] : a \in SignalTuples}
    \cup {[fn |-> "makeRound", args |-> a, result |-> NoResult] : a \in RoundArguments}
    \cup {[fn |-> "localPolicy", args |-> a, result |-> NoResult] : a \in Requests}

InitCalls == Mounted /\ attempts = <<>> /\ call \in Calls

callComputeFrustration ==
  /\ call.fn = "computeFrustration"
  /\ call.result = NoResult
  /\ call' = [call EXCEPT !.result = computeFrustration(call.args)]
  /\ UNCHANGED pageVars

callMakeRound ==
  /\ call.fn = "makeRound"
  /\ call.result = NoResult
  /\ \E r \in makeRound(call.args.prevTarget, call.args.level, nextId) :
       call' = [call EXCEPT !.result = r]
  /\ UNCHANGED pageVars

\* the catch branch of onPick and the record it leads to
callLocalPolicy ==
  /\ call.fn = "localPolicy"
  /\ call.result = NoResult
  /\ call' = [call EXCEPT !.result =
                attemptOf(pickOf(call.args), localDecision(call.args), "fallback")]
  /\ UNCHANGED pageVars

NextCalls == callComputeFrustration \/ callMakeRound \/ callLocalPolicy

SpecCalls == InitCalls /\ [][NextCalls]_vars

\* ------------------------------------------------------------------------
\* Properties
\* ------------------------------------------------------------------------
\* the step just taken finished a choose event / finished it with the local policy
Completed == ev.kind = "complete"
DecidedLocally == Completed /\ attempts[1].source = "fallback"


\* C1: a choose event decided by the local policy logs the action that the
\* rounded frustration F and the streak captured at the click determine:
\* keep below 0.35, support below 0.65, and from 0.65 on ease when the streak
\* plus one reaches 2 and support otherwise; example scenarios 1 and 2 of
\* the specification give F = 0.50 / support and F = 1.00 / ease with the
\* level one step down and the success streak at 0.
C1_ActionFromFrustration ==
  /\ DecidedLocally =>
       LET F == attempts[1].frustration
           a == attempts[1].action
           streak == ev.pick.highFrustrationStreak
       IN  /\ F < 35 => a = "keep"
           /\ (35 <= F /\ F < 65) => a = "support"
           /\ F >= 65 => a = (IF streak + 1 >= 2 THEN "ease" ELSE "support")
  /\ LET d1 == localDecision(ExamplePick(3, 0, 2, 3, 0, 0, 0, FALSE, "medium"))
         d2 == localDecision(ExamplePick(3, 2, 2, 12, 2, 1, 0, FALSE, "medium"))
     IN  /\ d1.frustration.value = 50 /\ d1.action = "support"
         /\ d2.frustration.value = 100 /\ d2.action = "ease"
         /\ d2.suggestedLevel = "easy" /\ d2.nextSuccessStreak = 0

C1_Witness ==
  /\ DecidedLocally
  /\ attempts[1].action = "ease"
  /\ attempts[1].frustration >= 65
  /\ ev.pick.highFrustrationStreak = 1

\* C2: after a choose event decided by the local policy the high-frustration
\* streak is 0 when F < 0.65 or the action is ease, and otherwise one more
\* than the value it had when the event started (the value the click read).
C2_HighStreakLaw ==
  /\ ev.kind = "click" => ev.pick.highFrustrationStreak = highFrustrationStreak
  /\ DecidedLocally =>
       highFrustrationStreak =
         (IF attempts[1].frustration < 65 \/ attempts[1].action = "ease"
          THEN 0 ELSE ev.pick.highFrustrationStreak + 1)

C2_Witness ==
  /\ DecidedLocally
  /\ attempts[1].frustration >= 65
  /\ attempts[1].action = "support"
  /\ highFrustrationStreak = 1

C3_Step ==
  (ev'.kind = "complete" /\ attempts'[1].source = "fallback") =>
    LET p == ev'.pick
        eased == attempts'[1].action = "ease"
    IN  /\ (~p.correct \/ eased) => successStreak' = 0
        /\ (p.correct /\ ~eased /\ p.successStreak + 1 >= 3) =>
             /\ successStreak' = 0
             /\ attempts'[1].levelAfter = nextLevel(p.level, "up")
             /\ level' = (IF nextLevel(p.level, "up") # p.level
                          THEN nextLevel(p.level, "up") ELSE level)
        /\ (p.correct /\ ~eased /\ p.successStreak + 1 < 3) =>
             /\ successStreak' = p.successStreak + 1
             /\ level' = level
             /\ attempts'[1].levelAfter = p.level

\* C3: a choose event decided by the local policy leaves the success streak
\* at 0 after an incorrect pick and after ease; a correct pick without ease
\* whose streak reaches 3 moves the level one step up from the level the
\* click read (at the top level nothing is written) and leaves the streak at
\* 0; any other correct pick adds one to the streak and does not change the
\* level.
C3_SuccessStreakLaw == [][C3_Step]_vars

C3_Witness ==
  /\ DecidedLocally
  /\ ev.pick.correct
  /\ ev.pick.successStreak = 2
  /\ ev.pick.level = "medium"
  /\ level = "hard"
  /\ successStreak = 0

\* C4: whichever way the exchange ends (fetch rejects, the 800 ms timeout
\* aborts it, the status is not 2xx, or a 2xx response carries a decision),
\* the choose event ends with a decision applied and logged; after a failure
\* the decision and the record are the local policy's on the captured inputs
\* and the provenance is fallback; the provenance is backend exactly when the
\* service answered with a decision.
C4_GatewayAlwaysDecides ==
  /\ ev.outcome \in {"network_error", "timeout", "not_ok", "ok"} =>
       /\ Completed
       /\ ~crashed
       /\ ev.pick \notin picks
       /\ attempts # <<>>
  /\ Completed =>
       /\ (attempts[1].source = "backend") <=> (ev.outcome = "ok")
       /\ decisionSource = attempts[1].source
       /\ attempts[1].action = ev.decision.action
       /\ attempts[1].levelAfter = ev.decision.suggestedLevel
       /\ highFrustrationStreak = ev.decision.nextHighFrustrationStreak
       /\ successStreak = ev.decision.nextSuccessStreak
  /\ (Completed /\ ev.outcome # "ok") =>
       /\ ev.decision = localDecision(ev.pick)
       /\ attempts[1] = attemptOf(ev.pick, localDecision(ev.pick), "fallback")

C4_Witness ==
  /\ Completed
  /\ ev.outcome = "timeout"
  /\ attempts[1].source = "fallback"
  /\ Len(attempts) >= 2
  /\ attempts[2].source = "backend"

\* C5: a 2xx response whose body is not a decision (not JSON, null, or an
\* object without the frustration field) is handled like a connection
\* failure: the choose event ends with the local decision applied and
\* logged with provenance fallback, and the session goes on.
C5_MalformedIsFailure ==
  ev.outcome \in {"unparsable", "null_body", "no_frustration"} =>
    /\ Completed
    /\ ~crashed
    /\ decisionSource = "fallback"
    /\ attempts # <<>>
    /\ attempts[1] = attemptOf(ev.pick, localDecision(ev.pick), "fallback")

\* C6: while a choose event waits for the decision service, before the
\* status or during the body, its 800 ms timeout is armed, so that the wait
\* ends at the latest when the timer fires.
C6_WaitBoundedByTimeout == \A p \in picks : p.phase = "fetch"

\* C7: at most one choose event is in flight at any time.
C7_SerializedInput == Cardinality(picks) <= 1

C8_Step ==
  (attempts' # attempts /\ ev'.kind # "reset") =>
    /\ ev'.kind = "complete"
    /\ Len(attempts') = Min(Len(attempts) + 1, MAX_ATTEMPTS)
    /\ attempts'[1].roundId = ev'.pick.round.id
    /\ attempts'[1].chosen = ev'.pick.swatch.label
    /\ \A i \in 2..Len(attempts') : attempts'[i] = attempts[i - 1]

\* C8: the attempt log never holds more than MAX_ATTEMPTS records, at load
\* and afterwards, and an append puts the new record in front of the previous
\* log, which keeps its records unaltered and in order and loses only those
\* at the old end beyond the cap.
C8_LogBounded == [](Len(attempts) <= MAX_ATTEMPTS) /\ [][C8_Step]_vars

C8_Witness ==
  /\ Completed
  /\ Len(attempts) = MAX_ATTEMPTS
  /\ attempts[MAX_ATTEMPTS] = Filler(MAX_ATTEMPTS - 2)
  /\ attempts[3] = Filler(1)

C9_Step ==
  (nResets' = 0 /\ round'.id # round.id) => round'.target # round.target

\* C9: in a run without reset, whenever the current round is replaced, the
\* target of the new round differs from the target of the round it replaces.
C9_NoImmediateRepeat == [][C9_Step]_vars

Pristine ==
  /\ level = "easy"
  /\ round.level = "easy"
  /\ successStreak = 0
  /\ highFrustrationStreak = 0
  /\ hintsUsed = 0
  /\ errorsConsecutive = 0
  /\ retriesSameRound = 0
  /\ perseveration = 0
  /\ lastWrongChoice = NoChoice
  /\ attempts = <<>>

C10_Step ==
  (ev.kind = "reset" /\ ev'.kind \notin {"click", "hint", "reset"}) =>
    UNCHANGED <<level, round, successStreak, highFrustrationStreak, hintsUsed,
                errorsConsecutive, retriesSameRound, perseveration, lastWrongChoice,
                attempts>>

\* C10: right after a reset the session is in its initial state with an
\* empty log, and no step other than a click changes the level, the
\* streaks, the counters, the round or the log after it.
C10_ResetPersists == [](ev.kind = "reset" => Pristine) /\ [][C10_Step]_vars

C11_Step ==
  (ev'.kind = "complete" /\ ev'.decision.action = "ease") =>
    /\ round'.id # round.id
    /\ round'.level = ev'.decision.suggestedLevel
    /\ attempts'[1].source = "fallback" =>
         ev'.decision.suggestedLevel = nextLevel(ev'.pick.level, "down")
    /\ round'.target # round.target
    /\ errorsConsecutive' = 0
    /\ retriesSameRound' = 0
    /\ lastWrongChoice' = NoChoice
    /\ perseveration' = 0
    /\ hintsUsed' = 0

\* C11: the step that ends a choose event with action ease replaces the
\* trial in that same step by a new one at the suggested level (under the
\* local policy one step below the level the event started at, clamped at
\* easy) whose target differs from the target of the trial it replaces, and
\* leaves the five per-trial counters at their initial values.
C11_EaseReplacesTrial == [][C11_Step]_vars

C12_Step ==
  /\ (ev'.kind = "click" /\ ~ev'.pick.correct) =>
       UNCHANGED <<round, level, hintsUsed>>
  /\ (/\ ev'.kind = "complete"
      /\ ~ev'.pick.correct
      /\ ev'.decision.action # "ease"
      /\ ev'.decision = localDecision(ev'.pick)) =>
       /\ UNCHANGED <<round, level, hintsUsed>>
       /\ attempts'[1].levelAfter = attempts'[1].levelBefore

C13_Step ==
  (ev'.kind = "complete" /\ attempts'[1].source = "fallback") =>
    LET p == ev'.pick
        eased == ev'.decision.action = "ease"
        levelUp == ~eased /\ p.correct /\ p.successStreak + 1 >= 3
    IN  /\ (level = "hard" /\ levelUp) => level' = "hard"
        /\ (level = "easy" /\ eased) => level' = "easy"
        /\ indexOf(level') - indexOf(level) \in {-1, 0, 1}

\* C13: the level is always one of easy, medium, hard; a choose event
\* decided by the local policy that asks for a level-up at hard or for an
\* ease at easy leaves the level as it is, and no such event moves the level
\* by more than one step.
C13_LevelClamped == [](level \in Levels) /\ [][C13_Step]_vars

\* the log holds exactly three records, of correct picks on three different
\* trials, each decided by the local policy with F < 0.35
ThreeCorrectTrials ==
  /\ Completed
  /\ Len(attempts) = 3
  /\ \A i \in 1..3 : /\ attempts[i].correct
                      /\ attempts[i].frustration < 35
                      /\ attempts[i].source = "fallback"
  /\ Cardinality({attempts[i].roundId : i \in 1..3}) = 3

\* C14: in a session that starts with no streak below the top level, three
\* consecutive correct trials with F < 0.35 leave the level alone on the
\* first two (rule none) and on the third give action keep, suggestedLevel
\* one step up, rule levelup_by_streak, with the level raised and the success
\* streak back at 0 afterwards; example scenario 3 of the specification.
C14_ThirdCorrectLevelsUp ==
  /\ ThreeCorrectTrials =>
       /\ \A i \in 2..3 : /\ attempts[i].action = "keep"
                           /\ attempts[i].levelAfter = attempts[i].levelBefore
                           /\ attempts[i].levelBefore = attempts[1].levelBefore
                           /\ attempts[i].rule = "none"
       /\ attempts[1].action = "keep"
       /\ attempts[1].levelBefore # "hard"
       /\ attempts[1].levelAfter = nextLevel(attempts[1].levelBefore, "up")
       /\ attempts[1].rule = "levelup_by_streak"
       /\ level = attempts[1].levelAfter
       /\ successStreak = 0
  /\ LET d3 == localDecision(ExamplePick(0, 0, 0, 0, 0, 0, 2, TRUE, "medium"))
     IN  /\ d3.frustration.value < 35 /\ d3.action = "keep"
         /\ d3.suggestedLevel = "hard" /\ d3.nextSuccessStreak = 0
         /\ ruleOf(d3.action, d3.suggestedLevel, "medium") = "levelup_by_streak"

C14_Witness ==
  /\ ThreeCorrectTrials
  /\ attempts[1].rule = "levelup_by_streak"
  /\ attempts[1].levelAfter = "medium"
  /\ level = "medium"
  /\ successStreak = 0
  /\ hintsUsed = 1

\* the result of a call of fn, once it returned
Returned(fn) == call.fn = fn /\ call.result # NoResult

Components(c) == {c.e, c.h, c.r, c.t, c.s}

\* C15: for every signal tuple of non-negative integers each of the five
\* components lies in [0, 1] (0..18 eighteenths) and the reported F in
\* [0, 1] (0..100 hundredths); the weights, read off as the F of one
\* saturated component alone, are 0.35, 0.20, 0.15, 0.20, 0.10 and add up to
\* 1, so that F is 1.00 exactly when all components are 1 and 0 exactly
\* when all are 0.
C15_ScorerRanges ==
  /\ Returned("computeFrustration") =>
       LET c == call.result.components
           F == call.result.value
       IN  /\ Components(c) \subseteq 0..18
           /\ F \in 0..100
           /\ (F = 100) <=> Components(c) = {18}
           /\ (F = 0) <=> Components(c) = {0}
  /\ LET only(e, h, r, l, s) ==
           computeFrustration([errorsConsecutive |-> e, hintsUsed |-> h,
                               retriesSameRound |-> r, latencySec |-> l,
                               perseveration |-> s]).value
     IN  /\ only(3, 0, 0, 0, 0) = 35
         /\ only(0, 2, 0, 0, 0) = 20
         /\ only(0, 0, 2, 0, 0) = 15
         /\ only(0, 0, 0, 12, 0) = 20
         /\ only(0, 0, 0, 0, 2) = 10
         /\ only(3, 0, 0, 0, 0) + only(0, 2, 0, 0, 0) + only(0, 0, 2, 0, 0)
              + only(0, 0, 0, 12, 0) + only(0, 0, 0, 0, 2) = 100

C15_Witness ==
  /\ Returned("computeFrustration")
  /\ call.args.errorsConsecutive = 4
  /\ call.args.hintsUsed = 3
  /\ call.args.retriesSameRound = 3
  /\ call.args.latencySec = 60
  /\ call.args.perseveration = 3
  /\ call.result.value = 100

\* a trial has one option per category, exactly one of them of the target
\* category; the others carry the base colour of their category, and so does
\* the correct one at the lowest level
WellFormed(r) ==
  /\ r.target \in ColorKeys
  /\ Cardinality(r.options) = Cardinality(ColorKeys)
  /\ \A c \in ColorKeys : Cardinality({o \in r.options : o.label = c}) = 1
  /\ \A o \in r.options : o.label # r.target => o.hex = BASE_COLOR[o.label]
  /\ r.level = "easy" => \A o \in r.options : o.hex = BASE_COLOR[o.label]

\* C16: every trial makeRound returns, for every level and every previous
\* target (or none), has exactly one option of the target category and one
\* option for each other category; every option that is not of the target
\* category carries the base variant of its category, and at the lowest
\* level the correct option carries the base variant of the target.
C16_RoundWellFormed ==
  /\ WellFormed(round)
  /\ Returned("makeRound") =>
       /\ WellFormed(call.result)
       /\ call.result.level = call.args.level

C16_Witness ==
  /\ Returned("makeRound")
  /\ call.args.level = "hard"
  /\ call.args.prevTarget = "azul"
  /\ call.result.target = "rojo"
  /\ \E o \in call.result.options : o.label = "rojo" /\ o.hex = "#FF7F7F"

C17_Step ==
  /\ ev'.kind = "click" =>
       LET p == ev'.pick
       IN  /\ p.correct = (p.swatch.label = round.target)
           /\ IF p.correct
              THEN /\ errorsConsecutive' = 0
                   /\ retriesSameRound' = 0
                   /\ perseveration' = 0
                   /\ lastWrongChoice' = NoChoice
              ELSE /\ errorsConsecutive' = errorsConsecutive + 1
                   /\ retriesSameRound' = retriesSameRound + 1
                   /\ IF lastWrongChoice = p.swatch.id
                      THEN /\ perseveration' = perseveration + 1
                           /\ lastWrongChoice' = lastWrongChoice
                      ELSE /\ perseveration' = perseveration
                           /\ lastWrongChoice' = p.swatch.id
           /\ p.nextErrorsConsecutive = errorsConsecutive'
           /\ p.nextRetriesSameRound = retriesSameRound'
           /\ p.nextPerseveration = perseveration'
           /\ p.hintsUsed = hintsUsed
  /\ (ev'.kind = "complete" /\ attempts'[1].source = "fallback") =>
       LET p == ev'.pick
           scored == computeFrustration([errorsConsecutive |-> p.nextErrorsConsecutive,
                                         hintsUsed |-> p.hintsUsed,
                                         retriesSameRound |-> p.nextRetriesSameRound,
                                         latencySec |-> p.latencySec,
                                         perseveration |-> p.nextPerseveration])
       IN  /\ attempts'[1].frustration = scored.value
           /\ attempts'[1].frustrationComponents = scored.components

\* C17: the click of a choose event updates the counters before the
\* decision is asked for: a correct pick sets consecutiveErrors,
\* retriesThisTrial and perseverationCount to 0 and lastWrongOptionId to
\* null; an incorrect pick adds 1 to consecutiveErrors and retriesThisTrial,
\* and adds 1 to perseverationCount when the picked id equals
\* lastWrongOptionId, else stores that id and leaves perseverationCount; the
\* local decision scores these updated values.
C17_CountersBeforeDecision == [][C17_Step]_vars

C17_Witness ==
  /\ DecidedLocally
  /\ ~ev.pick.correct
  /\ ev.pick.nextPerseveration = 1
  /\ ev.pick.nextErrorsConsecutive = 2
  /\ attempts[1].frustrationComponents.s = 9
  /\ attempts[1].frustrationComponents.e = 12

\* C18: the record a choose event appends carries the action and the
\* suggested level of its decision and the level read at the click, and its
\* rule is support_by_frustration for support, ease_by_frustration for ease,
\* otherwise levelup_by_streak when the suggested level differs from the
\* level before the event, otherwise none.
C18_RuleFromDecision ==
  /\ ev.kind = "click" => ev.pick.level = level
  /\ Completed =>
       LET a == attempts[1]
       IN  /\ a.action = ev.decision.action
           /\ a.levelAfter = ev.decision.suggestedLevel
           /\ a.levelBefore = ev.pick.level
           /\ a.action = "support" => a.rule = "support_by_frustration"
           /\ a.action = "ease" => a.rule = "ease_by_frustration"
           /\ (a.action = "keep" /\ a.levelAfter # a.levelBefore) =>
                a.rule = "levelup_by_streak"
           /\ (a.action = "keep" /\ a.levelAfter = a.levelBefore) => a.rule = "none"
           /\ a.action \in {"keep", "support", "ease"}

C18_Witness ==
  /\ DecidedLocally
  /\ attempts[1].rule = "levelup_by_streak"
  /\ attempts[1].levelBefore = "medium"
  /\ attempts[1].levelAfter = "hard"
  /\ Len(attempts) >= 2
  /\ attempts[2].source = "backend"

C19_Step ==
  ev'.kind = "hint" =>
    /\ hintsUsed' = hintsUsed + 1
    /\ hintOn' = TRUE
    /\ UNCHANGED <<round, level, errorsConsecutive, retriesSameRound, perseveration,
                   lastWrongChoice, successStreak, highFrustrationStreak, attempts>>

\* C19: useHint adds exactly 1 to hintsUsedThisTrial and sets the highlight
\* flag, and leaves the current trial, the level, consecutiveErrors,
\* retriesThisTrial, perseverationCount, lastWrongOptionId, both streaks and
\* the attempt log unchanged.
C19_HintFrame == [][C19_Step]_vars

C19_Witness ==
  /\ ev.kind = "hint"
  /\ hintsUsed = 1
  /\ hintOn
  /\ retriesSameRound = 2
  /\ perseveration = 1
  /\ Len(attempts) = 2
  /\ highFrustrationStreak = 1

\* C20: once a trial has a correct record no further click on it is
\* processed, so that no click starts a choose event on a trial the log
\* already holds a correct record of, and at most one delayed replacement
\* of the trial is pending at any time.
C20_OneCorrectPerTrial ==
  /\ Len(advanceTimers) <= 1
  /\ ev.kind = "click" =>
       \A i \in 1..Len(attempts) :
         ~(attempts[i].correct /\ attempts[i].roundId = ev.pick.round.id)

\* C21: a correct choose decided by the local policy has error, retry and
\* perseveration components 0 and F at most 0.40, whatever the hint count
\* and the latency; its action is never ease, it leaves the high-frustration
\* streak at 0 and its record never has levelAfter below levelBefore; a
\* locally decided record with levelAfter below levelBefore is an ease on an
\* incorrect pick.
C21_CorrectNeverEases ==
  /\ (DecidedLocally /\ ev.pick.correct) =>
       LET a == attempts[1]
       IN  /\ a.frustrationComponents.e = 0
           /\ a.frustrationComponents.r = 0
           /\ a.frustrationComponents.s = 0
           /\ a.frustration <= 40
           /\ a.action # "ease"
           /\ highFrustrationStreak = 0
           /\ indexOf(a.levelAfter) >= indexOf(a.levelBefore)
  /\ (DecidedLocally /\ indexOf(attempts[1].levelAfter) < indexOf(attempts[1].levelBefore)) =>
       ~ev.pick.correct /\ attempts[1].action = "ease"
  /\ ev.kind = "init" =>
       \A h \in 0..3, l \in {0, 3, 7, 12, 60} :
         computeFrustration([errorsConsecutive |-> 0, hintsUsed |-> h,
                             retriesSameRound |-> 0, latencySec |-> l,
                             perseveration |-> 0]).value <= 40

C21_Witness ==
  /\ DecidedLocally
  /\ ev.pick.correct
  /\ ev.pick.highFrustrationStreak = 1
  /\ attempts[1].frustration = 30
  /\ attempts[1].action = "keep"
  /\ highFrustrationStreak = 0

C22_Step ==
  round'.id # round.id => errorsConsecutive' = 0 /\ retriesSameRound' = 0

\* C22: consecutiveErrors equals retriesThisTrial in every state, and every
\* step that replaces the trial (ease, delayed advance, reset) leaves both
\* at 0, so that no error count is carried into the next trial.
C22_ErrorsEqualRetries ==
  [](errorsConsecutive = retriesSameRound) /\ [][C22_Step]_vars

C22_Witness ==
  /\ ev.kind = "advance"
  /\ errorsConsecutive = 0
  /\ retriesSameRound = 0
  /\ Len(attempts) = 2
  /\ attempts[1].correct
  /\ ~attempts[2].correct
  /\ attempts[1].roundId = attempts[2].roundId

C23_Step ==
  (ev'.kind = "complete" /\ attempts # <<>>) =>
    attempts'[1].levelBefore = attempts[1].levelAfter

\* C23: between resets the log is level-continuous: a record appended to a
\* log that is not empty has the levelAfter of the newest record before it
\* as its levelBefore, and whenever the log is not empty the current level
\* is the levelAfter of its newest record.
C23_LevelContinuous ==
  [](attempts # <<>> => level = attempts[1].levelAfter) /\ [][C23_Step]_vars

\* C24 as stated: under the local policy a record whose levelAfter differs
\* from levelBefore has rule ease_by_frustration when the level is lower and
\* levelup_by_streak when it is higher, and a record with rule
\* support_by_frustration or none has levelAfter equal to levelBefore.
C24_RuleAccountsForLevel ==
  Returned("localPolicy") =>
    LET a == call.result
        before == indexOf(a.levelBefore)
        after == indexOf(a.levelAfter)
    IN  /\ after < before => a.rule = "ease_by_frustration"
        /\ after > before => a.rule = "levelup_by_streak"
        /\ a.rule \in {"support_by_frustration", "none"} => after = before

\* C24 amended: under the local policy a record whose levelAfter differs
\* from levelBefore has rule ease_by_frustration when the level is lower,
\* and when it is higher rule levelup_by_streak (action keep) or rule
\* support_by_frustration (action support on a correct pick whose streak
\* reaches 3, with 0.35 <= F <= 0.40); a record with rule none has
\* levelAfter equal to levelBefore.
C24_RuleAccountsForLevelAmended ==
  Returned("localPolicy") =>
    LET a == call.result
        p == call.args
        before == indexOf(a.levelBefore)
        after == indexOf(a.levelAfter)
    IN  /\ after < before => a.rule = "ease_by_frustration"
        /\ after > before =>
             /\ p.correct /\ p.successStreak + 1 >= 3
             /\ \/ a.rule = "levelup_by_streak" /\ a.action = "keep"
                \/ /\ a.rule = "support_by_frustration"
                   /\ a.action = "support"
                   /\ a.frustration \in 35..40
        /\ a.rule = "none" => after = before

C24_Witness ==
  /\ Returned("localPolicy")
  /\ call.args.correct
  /\ call.args.hintsUsed = 2
  /\ call.args.latencySec = 12
  /\ call.result.action = "support"
  /\ call.result.rule = "support_by_frustration"
  /\ call.result.levelBefore = "easy"
  /\ call.result.levelAfter = "medium"

====
